---- MODULE Spec2Model ----
(***************************************************************************)
(* Model of the two scripts of umi_tnseq:                                  *)
(*   scripts/filter_trim.py  - anchor filter, trimming, UMI extraction     *)
(*   scripts/process_sam.py  - position resolution, key combining,         *)
(*                             PCR-duplicate collapsing, site table        *)
(* Strings are sequences of one-character strings.  Python lists and numpy *)
(* arrays are sequences; Python index i is TLA+ index i+1.                 *)
(***************************************************************************)
EXTENDS Integers, Sequences, FiniteSets, TLC

VARIABLES
    \* ---- filter_trim.py : filter_and_process_fastq
    cfg,             \* transposon_seq, max_errors, trim_length, umi_length
    in_reads,        \* records of the input FastQ file, in file order
    counter,         \* overall read counter (line 112)
    passed_indices,  \* list of zero-based indices of passing reads (line 111)
    out_handle,      \* records written to the trimmed FastQ
    umi_handle,      \* lines written to the UMI file
    index_file,      \* content of the PF index file, None before line 150
    spans,           \* match.span() of every passing read, in order
    fpc,             \* position in filter_and_process_fastq
    \* ---- process_sam.py : get_positions
    sam_file,        \* alignment records of the SAM file being read
    positions,       \* the list built by the loop (line 64)
    rpc,             \* position in get_positions
    \* ---- process_sam.py : main and the functions it calls
    sam_r1_path,     \* args.sam_r1
    inputs,          \* the four input files: which one is missing, and contents
    sample_name,     \* line 233
    positions_r2,    \* second-read positions (line 238)
    umi_list,        \* lines of the UMI file (line 241)
    indices_pf,      \* PF indices (line 244)
    site_table,      \* rows of {sample}_merged.pos, None until it is written
    steps,           \* the processing steps performed so far, in order
    positions_r1,    \* first-read positions (line 237)
    positions_r2_pf, \* second-read positions sliced by the PF indices (line 247)
    umi_list_pf,     \* UMIs selected by the PF indices (line 248)
    combined_umi,    \* UMI+position keys (line 260)
    unique_positions, counts, counts_umi,   \* results of discard_pcr_duplicates
    position_counts, \* the matrix of count_reads_per_ta_site
    pc,              \* position in main
    error            \* "" while running, else the kind of fatal exit

filterVars == <<cfg, in_reads, counter, passed_indices, out_handle, umi_handle,
                index_file, spans, fpc>>

resolveVars == <<sam_file, positions, rpc>>

mainVars == <<sam_r1_path, inputs, sample_name, positions_r2, umi_list,
                  indices_pf, site_table, steps, positions_r1, positions_r2_pf, umi_list_pf, combined_umi,
                  unique_positions, counts, counts_umi, position_counts,
                  pc, error>>

vars == <<filterVars, resolveVars, mainVars>>

\* Python's optional values: None is the empty sequence, a value x is <<x>>
None == <<>>
Some(x) == <<x>>
ValueOf(o) == o[1]

\* ------------------------------------------------------------------------
\* Bounds of the model
\* ------------------------------------------------------------------------
MaxReads == 2
MaxReadLen == 3

\* ------------------------------------------------------------------------
\* Generic helpers
\* ------------------------------------------------------------------------
Min(a, b) == IF a <= b THEN a ELSE b
Max(a, b) == IF a >= b THEN a ELSE b

SeqsUpTo(S, n) == UNION {[1..k -> S] : k \in 0..n}

\* ------------------------------------------------------------------------
\* Python sequence slicing  s[lo:hi]  (lo, hi integers or None), as used on
\* lines 132-137 and 143 of filter_trim.py.  Negative bounds count from the
\* end of the sequence; bounds are then clamped to 0..len(s).
\* ------------------------------------------------------------------------
SliceIndex(i, n) == IF i < 0 THEN Max(i + n, 0) ELSE Min(i, n)

PySlice(s, lo, hi) ==
    LET n == Len(s)
        a == IF lo = None THEN 0 ELSE SliceIndex(ValueOf(lo), n)
        b == IF hi = None THEN n ELSE SliceIndex(ValueOf(hi), n)
    IN  IF a < b THEN SubSeq(s, a + 1, b) ELSE <<>>

\* ------------------------------------------------------------------------
\* The compiled pattern  (transposon_seq){e<=max_errors}  with IGNORECASE
\* (line 109) and pattern.search (line 122).
\* ------------------------------------------------------------------------
Upper(c) == IF c = "a" THEN "A" ELSE IF c = "c" THEN "C" ELSE c

UpperSeq(s) == [i \in 1..Len(s) |-> Upper(s[i])]

RECURSIVE EditDistance(_, _)
EditDistance(a, b) ==
    IF Len(a) = 0 THEN Len(b)
    ELSE IF Len(b) = 0 THEN Len(a)
    ELSE LET ta == Tail(a)
             tb == Tail(b)
             sub == EditDistance(ta, tb) + (IF Head(a) = Head(b) THEN 0 ELSE 1)
             del == EditDistance(ta, b) + 1
             ins == EditDistance(a, tb) + 1
         IN  Min(sub, Min(del, ins))

\* every span (start, end) of seq, 0-based and end-exclusive, whose text is
\* within max_errors edits of the anchor, compared case-insensitively
FuzzySpans(seq, anchor, max_errors) ==
    {sp \in (0..Len(seq)) \X (0..Len(seq)) :
        /\ sp[1] <= sp[2]
        /\ EditDistance(UpperSeq(SubSeq(seq, sp[1] + 1, sp[2])),
                        UpperSeq(anchor)) <= max_errors}

\* pattern.search scans start positions left to right and returns the first
\* match it finds: the start is the leftmost start that admits a match; which
\* of the admissible ends the matcher stops at is left open.
Search(seq, anchor, max_errors) ==
    LET all == FuzzySpans(seq, anchor, max_errors)
    IN  {sp \in all : \A other \in all : sp[1] <= other[1]}

HasMatch(seq) == Search(seq, cfg.transposon_seq, cfg.max_errors) # {}

\* ------------------------------------------------------------------------
\* filter_and_process_fastq, the body of the loop for one passing read
\* ------------------------------------------------------------------------
\* mutant: the one-based counter is recorded instead of the zero-based index
ZeroBasedIndex_OneBased(c) == c

\* line 124: passed_indices.append(counter - 1)
ZeroBasedIndex(c) == c - 1

\* line 127: trim_position = match.span()[1] - 2
TrimPosition(span) == span[2] - 2

\* lines 129-137: the slice applied to both seq and qual
Trimmed(s, span, trim_length) ==
    LET trim_position == TrimPosition(span)
    IN  IF trim_length # None
        THEN PySlice(s, Some(trim_position),
                     Some(trim_position + ValueOf(trim_length)))
        ELSE PySlice(s, Some(trim_position), None)

\* line 143: umi = seq[:umi_length]
ExtractUmi(seq, umi_length) == PySlice(seq, None, Some(umi_length))

\* lines 120-144: one iteration of the loop over the FastQ records
ProcessRead ==
    /\ fpc = "loop"
    /\ counter < Len(in_reads)
    /\ LET read == in_reads[counter + 1]
           c == counter + 1
           found == Search(read.seq, cfg.transposon_seq, cfg.max_errors)
       IN  /\ counter' = c
           /\ \/ /\ found # {}
                 /\ \E match \in found :
                      /\ passed_indices' = Append(passed_indices, ZeroBasedIndex(c))
                      /\ out_handle' = Append(out_handle,
                             [title |-> read.title,
                              seq |-> Trimmed(read.seq, match, cfg.trim_length),
                              qual |-> Trimmed(read.qual, match, cfg.trim_length)])
                      /\ umi_handle' = Append(umi_handle,
                             ExtractUmi(read.seq, cfg.umi_length))
                      /\ spans' = Append(spans, match)
              \/ /\ found = {}
                 /\ UNCHANGED <<passed_indices, out_handle, umi_handle, spans>>
    /\ UNCHANGED <<cfg, in_reads, index_file, fpc>>
    /\ UNCHANGED <<resolveVars, mainVars>>

\* line 150: np.savetxt(index_file, passed_indices, fmt="%d"), after the loop
SaveIndices ==
    /\ fpc = "loop"
    /\ counter = Len(in_reads)
    /\ index_file' = Some(passed_indices)
    /\ fpc' = "done"
    /\ UNCHANGED <<cfg, in_reads, counter, passed_indices, out_handle,
                   umi_handle, spans>>
    /\ UNCHANGED <<resolveVars, mainVars>>

\* ------------------------------------------------------------------------
\* Inputs of the first stage
\* ------------------------------------------------------------------------
Bases == {"A", "C", "c"}

\* a FastQ record; the i-th quality symbol is written i, so that a quality
\* string shows which positions of the read it was cut from
MkRead(title, seq) == [title |-> title, seq |-> seq, qual |-> [i \in 1..Len(seq) |-> i]]

Anchors == {<<"A">>, <<"C", "A">>}
ErrorBudgets == {0, 1}
TrimLengths == {None, Some(-1), Some(2)}
UmiLengths == {1, 2}

Configs == [transposon_seq : Anchors, max_errors : ErrorBudgets,
            trim_length : TrimLengths, umi_length : UmiLengths]

FilterSeqs == {<<>>, <<"C", "C">>, <<"C", "A">>, <<"c", "C", "a", "C">>}

\* the variables of a stage that is not running
FilterIdle ==
    /\ cfg = [transposon_seq |-> <<>>, max_errors |-> 0,
              trim_length |-> None, umi_length |-> 0]
    /\ in_reads = <<>>
    /\ counter = 0
    /\ passed_indices = <<>>
    /\ out_handle = <<>>
    /\ umi_handle = <<>>
    /\ index_file = None
    /\ spans = <<>>
    /\ fpc = "idle"

ResolveIdle ==
    /\ sam_file = <<>>
    /\ positions = <<>>
    /\ rpc = "idle"

MainIdle ==
    /\ sam_r1_path = <<>>
    /\ inputs = [missing |-> "none", sam_r1 |-> <<>>, sam_r2 |-> <<>>,
                 umi_list |-> <<>>, indices_pf |-> <<>>]
    /\ sample_name = <<>>
    /\ positions_r2 = <<>>
    /\ umi_list = <<>>
    /\ indices_pf = <<>>
    /\ site_table = None
    /\ steps = <<>>
    /\ positions_r1 = <<>>
    /\ positions_r2_pf = <<>>
    /\ umi_list_pf = <<>>
    /\ combined_umi = <<>>
    /\ unique_positions = <<>>
    /\ counts = <<>>
    /\ counts_umi = <<>>
    /\ position_counts = <<>>
    /\ pc = "idle"
    /\ error = ""

FilterInit(files) ==
    /\ ResolveIdle
    /\ MainIdle
    /\ cfg \in Configs
    /\ in_reads \in files
    /\ counter = 0
    /\ passed_indices = <<>>
    /\ out_handle = <<>>
    /\ umi_handle = <<>>
    /\ index_file = None
    /\ spans = <<>>
    /\ fpc = "loop"

\* a file of up to MaxReads reads
InitFilter ==
    FilterInit({[i \in 1..n |-> MkRead(i, f[i])] :
                n \in 0..MaxReads, f \in [1..MaxReads -> FilterSeqs]})

\* a file of one read, of any content up to MaxReadLen bases
InitTrim ==
    FilterInit({<<MkRead(1, s)>> : s \in SeqsUpTo(Bases, MaxReadLen)})

NextFilter == ProcessRead \/ SaveIndices

SpecFilter == InitFilter /\ [][NextFilter]_vars
SpecTrim == InitTrim /\ [][NextFilter]_vars

\* ------------------------------------------------------------------------
\* Properties of the first stage
\* ------------------------------------------------------------------------
\* the zero-based indices, ascending, of the reads processed so far in which
\* the anchor matches
MatchedIndices ==
    SelectSeq([i \in 1..counter |-> i - 1],
              LAMBDA i : HasMatch(in_reads[i + 1].seq))

\* C1: after any number of reads, the pass-filter index list is exactly the
\* ascending list of the zero-based indices of the reads in which the anchor
\* matched, the trimmed output and the UMI output have as many entries as the
\* index list (so a read without a match adds to none of them), and the index
\* file written at the end is that list.
C1_FilterArtifactsAgree ==
    /\ passed_indices = MatchedIndices
    /\ Len(out_handle) = Len(passed_indices)
    /\ Len(umi_handle) = Len(passed_indices)
    /\ \A k \in 1..Len(out_handle) :
          out_handle[k].title = in_reads[passed_indices[k] + 1].title
    /\ fpc = "done" => /\ counter = Len(in_reads)
                       /\ index_file = Some(passed_indices)

\* a finished run in which the first read failed and the second passed
C1_Witness ==
    /\ fpc = "done"
    /\ counter = 2
    /\ passed_indices = <<1>>
    /\ Len(out_handle) = 1

\* the part of s at the 0-based indices a <= i < b
Between(s, a, b) ==
    LET lo == Max(a, 0)
        hi == Min(b, Len(s))
    IN  IF lo < hi THEN SubSeq(s, lo + 1, hi) ELSE <<>>

\* C6: for every passing read of length L whose match ends at e, the trimmed
\* sequence is the read from index e-2 up to min(e-2+trim_length, L) when
\* trim_length is set (its length being min(trim_length, L-(e-2))) and from
\* e-2 to L when it is unset, and the quality string is cut at the same indices.
C6_TrimWindow ==
    \A k \in 1..Len(out_handle) :
        LET read == in_reads[passed_indices[k] + 1]
            L == Len(read.seq)
            e == spans[k][2]
            rec == out_handle[k]
            stop == IF cfg.trim_length = None THEN L
                    ELSE Min(e - 2 + ValueOf(cfg.trim_length), L)
        IN  /\ rec.seq = Between(read.seq, e - 2, stop)
            /\ rec.qual = Between(read.qual, e - 2, stop)
            /\ cfg.trim_length # None =>
                  Len(rec.seq) = Min(ValueOf(cfg.trim_length), L - (e - 2))

\* ========================================================================
\* process_sam.py
\* ========================================================================
\* the invalid-position sentinel appended on lines 77 and 79
Invalid == -1

\* ------------------------------------------------------------------------
\* get_positions.  An alignment record is [pos, xs, is_reverse]:
\*   pos         read.get_reference_positions(full_length=False)
\*   xs          read.has_tag("XS")
\*   is_reverse  the strand bit; pysam's is_forward is its negation
\* ------------------------------------------------------------------------
\* mutant: a reverse-strand read resolved to its first covered position
ReversePosition_First(pos) == pos[1]

\* line 75: pos[-1]
ReversePosition(pos) == pos[Len(pos)]

\* lines 68-79: the position appended for one record
ResolvePosition(read) ==
    LET pos == read.pos
        is_forward == ~read.is_reverse
    IN  IF pos # <<>> /\ ~read.xs
        THEN IF is_forward THEN pos[1]
             ELSE IF read.is_reverse THEN ReversePosition(pos)
             ELSE Invalid
        ELSE Invalid

\* lines 67-79: one iteration of the loop over the records
ResolveRecord ==
    /\ rpc = "loop"
    /\ Len(positions) < Len(sam_file)
    /\ positions' = Append(positions, ResolvePosition(sam_file[Len(positions) + 1]))
    /\ UNCHANGED <<sam_file, rpc>>
    /\ UNCHANGED <<filterVars, mainVars>>

\* lines 84-86: the loop is over, the array is returned
ReturnPositions ==
    /\ rpc = "loop"
    /\ Len(positions) = Len(sam_file)
    /\ rpc' = "done"
    /\ UNCHANGED <<sam_file, positions>>
    /\ UNCHANGED <<filterVars, mainVars>>

\* get_positions on a readable file, as main uses it (lines 237-238)
GetPositions(file) == [i \in 1..Len(file) |-> ResolvePosition(file[i])]

MaxRecords == 2

CoveredPositions == {<<>>, <<0>>, <<3, 4>>, <<5, 6, 8>>}

AlignmentRecords == [pos : CoveredPositions, xs : BOOLEAN, is_reverse : BOOLEAN]

InitResolve ==
    /\ FilterIdle
    /\ MainIdle
    /\ sam_file \in SeqsUpTo(AlignmentRecords, MaxRecords)
    /\ positions = <<>>
    /\ rpc = "loop"

NextResolve == ResolveRecord \/ ReturnPositions

SpecResolve == InitResolve /\ [][NextResolve]_vars

\* C7: every record processed has exactly one entry, in record order; the
\* entry is valid if and only if the record covers at least one reference
\* position and carries no XS tag, and is then the first covered position of
\* a forward-strand read and the last covered position of a reverse-strand
\* read; every other record has the invalid entry.
C7_PositionResolution ==
    /\ Len(positions) <= Len(sam_file)
    /\ rpc = "done" => Len(positions) = Len(sam_file)
    /\ \A i \in 1..Len(positions) :
          LET read == sam_file[i]
              unique_and_mapped == Len(read.pos) >= 1 /\ ~read.xs
          IN  /\ (positions[i] # Invalid) <=> unique_and_mapped
              /\ unique_and_mapped /\ ~read.is_reverse =>
                    positions[i] = read.pos[1]
              /\ unique_and_mapped /\ read.is_reverse =>
                    positions[i] = read.pos[Len(read.pos)]

\* a finished file with a reverse-strand read covering several positions and
\* a read that resolves to invalid
C7_Witness ==
    /\ rpc = "done"
    /\ \E i \in 1..Len(positions) :
          /\ sam_file[i].is_reverse
          /\ Len(sam_file[i].pos) >= 2
          /\ positions[i] = sam_file[i].pos[Len(sam_file[i].pos)]
    /\ \E i \in 1..Len(positions) : positions[i] = Invalid

\* ------------------------------------------------------------------------
\* process_umi_positions
\* ------------------------------------------------------------------------
Digit(d) == <<"0", "1", "2", "3", "4", "5", "6", "7", "8", "9">>[d + 1]

RECURSIVE DecimalDigits(_)
DecimalDigits(n) ==
    IF n < 10 THEN <<Digit(n)>>
    ELSE Append(DecimalDigits(n \div 10), Digit(n % 10))

\* the text an integer formats to inside an f-string
IntString(n) == IF n < 0 THEN <<"-">> \o DecimalDigits(0 - n) ELSE DecimalDigits(n)

\* mutant: the key is the UMI alone
CombinedKey_UmiOnly(umi, pos) == umi

\* line 134: f"{umi}{pos}"
CombinedKey(umi, pos) == umi \o IntString(pos)

\* lines 129-136: ok is FALSE when the function ends the run (line 133)
ProcessUmiPositions(umis, r2_pf) ==
    IF Len(umis) # Len(r2_pf)
    THEN [ok |-> FALSE, value |-> <<>>]
    ELSE [ok |-> TRUE,
          value |-> [k \in 1..Len(umis) |-> CombinedKey(umis[k], r2_pf[k])]]

\* ------------------------------------------------------------------------
\* discard_pcr_duplicates
\* ------------------------------------------------------------------------
\* mutant: coordinate 0 is dropped together with the sentinel
IsValid_Positive(pos) == pos > 0

\* lines 145 and 148: pos != -1
IsValid(pos) == pos # Invalid

RECURSIVE SortedSeq(_)
\* the elements of a finite set of integers in ascending order
SortedSeq(S) ==
    IF S = {} THEN <<>>
    ELSE LET m == CHOOSE x \in S : \A y \in S : x <= y
         IN  <<m>> \o SortedSeq(S \ {m})

Range(s) == {s[i] : i \in 1..Len(s)}

Occurrences(a, v) == Cardinality({i \in 1..Len(a) : a[i] = v})

\* mutant: the counts are not requested, every value counts once
NpUnique_NoCounts(a) ==
    LET values == SortedSeq(Range(a))
    IN  [values |-> values, counts |-> [i \in 1..Len(values) |-> 1]]

\* np.unique(a, return_counts=True): the sorted distinct values and the
\* number of times each occurs (lines 152 and 163)
NpUnique(a) ==
    LET values == SortedSeq(Range(a))
    IN  [values |-> values,
         counts |-> [i \in 1..Len(values) |-> Occurrences(a, values[i])]]

\* np.argsort(a) (line 158), as 1-based indices: a permutation that puts a in
\* ascending order; the default sort is not stable, so the order among equal
\* entries is any
ArgSorts(a) ==
    {p \in [1..Len(a) -> 1..Len(a)] :
        /\ \A i, j \in 1..Len(a) : i # j => p[i] # p[j]
        /\ \A i \in 1..Len(a) - 1 : a[p[i]] <= a[p[i + 1]]}

RECURSIVE CumSum(_)
CumSum(a) ==
    IF a = <<>> THEN <<>>
    ELSE LET n == Len(a)
             front == CumSum(SubSeq(a, 1, n - 1))
         IN  Append(front, (IF n = 1 THEN 0 ELSE front[n - 1]) + a[n])

\* lines 145-173, for the permutation sorted_indices that argsort returned
DiscardResult(positions_combined, combined, sorted_indices) ==
    LET zipped == Min(Len(combined), Len(positions_combined))
        kept == SelectSeq([k \in 1..Len(positions_combined) |-> k],
                          LAMBDA k : IsValid(positions_combined[k]))
        keptZip == SelectSeq([k \in 1..zipped |-> k],
                             LAMBDA k : IsValid(positions_combined[k]))
        filtered_positions == [k \in 1..Len(kept) |-> positions_combined[kept[k]]]
        filtered_umi == [k \in 1..Len(keptZip) |-> combined[keptZip[k]]]
        first == NpUnique(filtered_positions)
        sorted_positions == [k \in 1..Len(sorted_indices) |->
                               filtered_positions[sorted_indices[k]]]
        sorted_umis == [k \in 1..Len(sorted_indices) |->
                          filtered_umi[sorted_indices[k]]]
        second == NpUnique(sorted_positions)
        unique_sorted == second.values
        cumulative == CumSum(second.counts)
        start(i) == IF i = 1 THEN 0 ELSE cumulative[i - 1]
    IN  [unique_sorted |-> unique_sorted,
         counts |-> first.counts,
         counts_umi |-> [i \in 1..Len(unique_sorted) |->
             Cardinality({sorted_umis[j] : j \in (start(i) + 1)..cumulative[i]})],
         filtered_positions |-> filtered_positions]

\* ------------------------------------------------------------------------
\* main, from line 259: combine, collapse, build the matrix, save it
\* ------------------------------------------------------------------------
Exit(kind) ==
    /\ error' = kind
    /\ pc' = "exit"

\* lines 260-265
CombineUmi ==
    /\ pc = "combine"
    /\ LET res == ProcessUmiPositions(umi_list_pf, positions_r2_pf)
       IN  IF ~res.ok
           THEN /\ Exit("umi_r2_mismatch")
                /\ UNCHANGED <<combined_umi, steps>>
           ELSE /\ combined_umi' = res.value
                /\ steps' = Append(steps, "combine")
                /\ IF Len(positions_r1) # Len(res.value)
                   THEN Exit("umi_r1_mismatch")
                   ELSE /\ pc' = "discard"
                        /\ UNCHANGED error
    /\ UNCHANGED <<sam_r1_path, inputs, sample_name, positions_r2, umi_list,
                   indices_pf, site_table, positions_r1, positions_r2_pf,
                   umi_list_pf, unique_positions, counts, counts_umi,
                   position_counts>>
    /\ UNCHANGED <<filterVars, resolveVars>>

\* lines 268-270
DiscardPcrDuplicates ==
    /\ pc = "discard"
    /\ \E sorted_indices \in
           ArgSorts(SelectSeq(positions_r1, LAMBDA x : IsValid(x))) :
         LET res == DiscardResult(positions_r1, combined_umi, sorted_indices)
         IN  /\ unique_positions' = res.unique_sorted
             /\ counts' = res.counts
             /\ counts_umi' = res.counts_umi
    /\ steps' = Append(steps, "discard")
    /\ pc' = "count"
    /\ UNCHANGED <<sam_r1_path, inputs, sample_name, positions_r2, umi_list,
                   indices_pf, site_table, positions_r1, positions_r2_pf,
                   umi_list_pf, combined_umi, position_counts, error>>
    /\ UNCHANGED <<filterVars, resolveVars>>

\* line 184: np.vstack((unique_positions, counts, counts_umi)).astype(int)
VStack(a, b, c) == <<a, b, c>>

\* lines 276-278
CountReadsPerTaSite ==
    /\ pc = "count"
    /\ position_counts' = VStack(unique_positions, counts, counts_umi)
    /\ steps' = Append(steps, "count")
    /\ pc' = "save"
    /\ UNCHANGED <<sam_r1_path, inputs, sample_name, positions_r2, umi_list,
                   indices_pf, site_table, positions_r1, positions_r2_pf,
                   umi_list_pf, combined_umi, unique_positions, counts,
                   counts_umi, error>>
    /\ UNCHANGED <<filterVars, resolveVars>>

\* matrix.T on line 197: one row (position, raw count, corrected count) per column
Transpose(m) == [i \in 1..Len(m[1]) |-> <<m[1][i], m[2][i], m[3][i]>>]

\* line 281 and lines 193-199
SavePositionCounts ==
    /\ pc = "save"
    /\ site_table' = Some(Transpose(position_counts))
    /\ steps' = Append(steps, "save")
    /\ pc' = "exit"
    /\ UNCHANGED <<sam_r1_path, inputs, sample_name, positions_r2, umi_list,
                   indices_pf, positions_r1, positions_r2_pf, umi_list_pf,
                   combined_umi, unique_positions, counts, counts_umi,
                   position_counts, error>>
    /\ UNCHANGED <<filterVars, resolveVars>>

\* ------------------------------------------------------------------------
\* Inputs of the combining and collapsing steps: read pairs (UMI, first-read
\* position, mate position), and the same with the UMI list one short
\* ------------------------------------------------------------------------
MaxPairs == 3

Umis == {<<"A">>, <<"A", "C">>}
FirstPositions == {Invalid, 0, 7}
MatePositions == {Invalid, 1, 11}

ReadPairs == [umi : Umis, r1 : FirstPositions, r2 : MatePositions]

PairLists == SeqsUpTo(ReadPairs, MaxPairs)

InitCollapse ==
    /\ FilterIdle
    /\ ResolveIdle
    /\ sam_r1_path = <<>>
    /\ inputs = [missing |-> "none", sam_r1 |-> <<>>, sam_r2 |-> <<>>,
                 umi_list |-> <<>>, indices_pf |-> <<>>]
    /\ sample_name = <<>>
    /\ positions_r2 = <<>>
    /\ umi_list = <<>>
    /\ indices_pf = <<>>
    /\ site_table = None
    /\ steps = <<>>
    /\ \E pairs \in PairLists, short \in BOOLEAN :
          /\ short => Len(pairs) = 1
          /\ positions_r1 = [k \in 1..Len(pairs) |-> pairs[k].r1]
          /\ positions_r2_pf = [k \in 1..Len(pairs) |-> pairs[k].r2]
          /\ umi_list_pf = IF short THEN <<>>
                           ELSE [k \in 1..Len(pairs) |-> pairs[k].umi]
    /\ combined_umi = <<>>
    /\ unique_positions = <<>>
    /\ counts = <<>>
    /\ counts_umi = <<>>
    /\ position_counts = <<>>
    /\ pc = "combine"
    /\ error = ""

NextCollapse ==
    CombineUmi \/ DiscardPcrDuplicates \/ CountReadsPerTaSite \/ SavePositionCounts

SpecCollapse == InitCollapse /\ [][NextCollapse]_vars

\* ------------------------------------------------------------------------
\* Properties of the combining and collapsing steps.  The read pairs are the
\* entries k of positions_r1, umi_list_pf and positions_r2_pf.
\* ------------------------------------------------------------------------
RECURSIVE SumSeq(_)
SumSeq(a) == IF a = <<>> THEN 0 ELSE Head(a) + SumSeq(Tail(a))

TableWritten == site_table # None

Rows == ValueOf(site_table)

RawCounts == [i \in 1..Len(Rows) |-> Rows[i][2]]

PairIndices == 1..Len(positions_r1)

\* C2 as stated: the raw counts of the site table add up to the number of
\* pairs whose first-read position and mate position are both valid.
C2_RawSumCountsBothValid ==
    TableWritten =>
        SumSeq(RawCounts) =
            Cardinality({k \in PairIndices : /\ positions_r1[k] # Invalid
                                             /\ positions_r2_pf[k] # Invalid})

\* C2 amended: the raw counts of the site table add up to the number of pairs
\* whose first-read position is valid, whatever the mate position is.
C2_RawSumCountsFirstValid ==
    TableWritten =>
        SumSeq(RawCounts) =
            Cardinality({k \in PairIndices : positions_r1[k] # Invalid})

\* a written table that counts a pair whose mate position is invalid
C2_Witness ==
    /\ TableWritten
    /\ Len(Rows) >= 1
    /\ \E k \in PairIndices : /\ positions_r1[k] # Invalid
                              /\ positions_r2_pf[k] = Invalid
    /\ \E k \in PairIndices : /\ positions_r1[k] # Invalid
                              /\ positions_r2_pf[k] # Invalid

\* C4: in every row, umi_corrected_count is the number of distinct
\* (UMI, mate position) pairs among the read pairs at that first-read
\* position, and 1 <= umi_corrected_count <= raw_count.
C4_CorrectedCountIsDistinctPairs ==
    TableWritten =>
        \A i \in 1..Len(Rows) :
            /\ Rows[i][3] =
                  Cardinality({<<umi_list_pf[k], positions_r2_pf[k]>> :
                                 k \in {j \in PairIndices : positions_r1[j] = Rows[i][1]}})
            /\ 1 <= Rows[i][3]
            /\ Rows[i][3] <= Rows[i][2]

\* a row of three pairs, two of them with the same UMI and mate position and
\* one that shares the UMI but not the mate position
C4_Witness ==
    /\ TableWritten
    /\ \E i \in 1..Len(Rows) :
          /\ Rows[i][2] = 3
          /\ Rows[i][3] = 2
          /\ \A j, k \in PairIndices : umi_list_pf[j] = umi_list_pf[k]

\* C5: the table has exactly one row per distinct valid first-read position
\* of the input (coordinate 0 included), in strictly ascending order; the
\* raw_count of a row is the number of input entries with that position; no
\* row carries the invalid sentinel.
C5_OneRowPerValidPosition ==
    TableWritten =>
        /\ {Rows[i][1] : i \in 1..Len(Rows)} =
              {positions_r1[k] : k \in PairIndices} \ {Invalid}
        /\ \A i \in 1..Len(Rows) - 1 : Rows[i][1] < Rows[i + 1][1]
        /\ \A i \in 1..Len(Rows) :
              /\ Rows[i][1] # Invalid
              /\ Rows[i][2] =
                    Cardinality({k \in PairIndices : positions_r1[k] = Rows[i][1]})

\* a table with the rows 0 and 7 from an input that lists 7 before 0 and
\* holds an invalid first-read position
C5_Witness ==
    /\ TableWritten
    /\ Len(Rows) = 2
    /\ Rows[1][1] = 0
    /\ Len(positions_r1) = 3
    /\ positions_r1[1] = 7
    /\ \E k \in PairIndices : positions_r1[k] = Invalid

\* ------------------------------------------------------------------------
\* extract_sample_name
\* ------------------------------------------------------------------------
\* os.path.basename (line 211): the text after the last "/"
Basename(path) ==
    LET slashes == {i \in 1..Len(path) : path[i] = "/"}
    IN  IF slashes = {} THEN path
        ELSE SubSeq(path, (CHOOSE i \in slashes : \A j \in slashes : j <= i) + 1,
                    Len(path))

\* re.match(r".*/(?P<sample_name>.+)_R1_.*$", filename) (line 212): a "/" at
\* some index i, a group of at least one character after it, then the
\* literal "_R1_" at index j, then anything up to the end
PatternMatches(filename) ==
    \E i \in 1..Len(filename) :
        /\ filename[i] = "/"
        /\ \E j \in (i + 2)..(Len(filename) - 3) :
              SubSeq(filename, j, j + 3) = <<"_", "R", "1", "_">>

\* the names of the groups of the pattern, and the one line 214 asks for
PatternGroups == {"sample_name"}
RequestedGroup == "sample"

\* lines 232-234 with lines 205-219.  match.group raises IndexError for a
\* name the pattern does not define; nothing catches it.
ExtractSampleName ==
    /\ pc = "extract_sample_name"
    /\ LET sam_r1_filename == Basename(sam_r1_path)
       IN  IF PatternMatches(sam_r1_filename)
           THEN IF RequestedGroup \in PatternGroups
                THEN /\ sample_name' = sam_r1_filename
                     /\ pc' = "get_positions_r1"
                     /\ UNCHANGED error
                ELSE /\ Exit("IndexError")
                     /\ UNCHANGED sample_name
           ELSE /\ Exit("naming")
                /\ UNCHANGED sample_name
    /\ UNCHANGED <<sam_r1_path, inputs, positions_r2, umi_list, indices_pf,
                   site_table, steps, positions_r1, positions_r2_pf,
                   umi_list_pf, combined_umi, unique_positions, counts,
                   counts_umi, position_counts>>
    /\ UNCHANGED <<filterVars, resolveVars>>

\* ------------------------------------------------------------------------
\* main, lines 236-257: positions, UMI list, PF indices, slicing
\* ------------------------------------------------------------------------
\* mutant: no input is ever found missing
FileMissing_Never(name) == FALSE

\* the file named on the command line does not exist: pysam's open raises
\* (line 66), os.path.isfile is false (lines 94 and 112)
FileMissing(name) == inputs.missing = name

\* line 237; opening a missing file raises inside the try of get_positions,
\* which logs and exits (lines 80-82)
GetPositionsR1 ==
    /\ pc = "get_positions_r1"
    /\ IF FileMissing("sam_r1")
       THEN /\ Exit("sam_file")
            /\ UNCHANGED <<positions_r1, steps>>
       ELSE /\ positions_r1' = GetPositions(inputs.sam_r1)
            /\ steps' = Append(steps, "get_positions_r1")
            /\ pc' = "get_positions_r2"
            /\ UNCHANGED error
    /\ UNCHANGED <<sam_r1_path, inputs, sample_name, positions_r2, umi_list,
                   indices_pf, site_table, positions_r2_pf, umi_list_pf,
                   combined_umi, unique_positions, counts, counts_umi,
                   position_counts>>
    /\ UNCHANGED <<filterVars, resolveVars>>

\* line 238
GetPositionsR2 ==
    /\ pc = "get_positions_r2"
    /\ IF FileMissing("sam_r2")
       THEN /\ Exit("sam_file")
            /\ UNCHANGED <<positions_r2, steps>>
       ELSE /\ positions_r2' = GetPositions(inputs.sam_r2)
            /\ steps' = Append(steps, "get_positions_r2")
            /\ pc' = "load_umi_list"
            /\ UNCHANGED error
    /\ UNCHANGED <<sam_r1_path, inputs, sample_name, umi_list, indices_pf,
                   site_table, positions_r1, positions_r2_pf, umi_list_pf,
                   combined_umi, unique_positions, counts, counts_umi,
                   position_counts>>
    /\ UNCHANGED <<filterVars, resolveVars>>

\* line 241 with lines 94-101
LoadUmiList ==
    /\ pc = "load_umi_list"
    /\ IF FileMissing("umi_list")
       THEN /\ Exit("umi_file_missing")
            /\ UNCHANGED <<umi_list, steps>>
       ELSE /\ umi_list' = inputs.umi_list
            /\ steps' = Append(steps, "load_umi_list")
            /\ pc' = "load_indices_pf"
            /\ UNCHANGED error
    /\ UNCHANGED <<sam_r1_path, inputs, sample_name, positions_r2, indices_pf,
                   site_table, positions_r1, positions_r2_pf, umi_list_pf,
                   combined_umi, unique_positions, counts, counts_umi,
                   position_counts>>
    /\ UNCHANGED <<filterVars, resolveVars>>

\* line 244 with lines 112-121.  np.loadtxt returns a 0-dimensional array for
\* a file of one number; len() of it raises TypeError inside the try on line
\* 117, and the handler logs and exits.
LoadIndicesPf ==
    /\ pc = "load_indices_pf"
    /\ IF FileMissing("indices_pf")
       THEN /\ Exit("indices_file_missing")
            /\ UNCHANGED <<indices_pf, steps>>
       ELSE IF Len(inputs.indices_pf) = 1
       THEN /\ Exit("indices_load")
            /\ UNCHANGED <<indices_pf, steps>>
       ELSE /\ indices_pf' = inputs.indices_pf
            /\ steps' = Append(steps, "load_indices_pf")
            /\ pc' = "slice"
            /\ UNCHANGED error
    /\ UNCHANGED <<sam_r1_path, inputs, sample_name, positions_r2, umi_list,
                   site_table, positions_r1, positions_r2_pf, umi_list_pf,
                   combined_umi, unique_positions, counts, counts_umi,
                   position_counts>>
    /\ UNCHANGED <<filterVars, resolveVars>>

\* a[x] for a Python list or numpy array and a non-negative index x
InRange(a, x) == x < Len(a)
At(a, x) == a[x + 1]

\* line 248: [umi_list[x] for x in indices_pf]
SelectUmis(umis, indices) == [k \in 1..Len(indices) |-> At(umis, indices[k])]

\* lines 247-257: an index out of range raises IndexError, which nothing
\* catches; then the length check of the two position arrays
SliceByIndices ==
    /\ pc = "slice"
    /\ IF \E k \in 1..Len(indices_pf) : ~InRange(positions_r2, indices_pf[k])
       THEN /\ Exit("IndexError")
            /\ UNCHANGED <<positions_r2_pf, umi_list_pf, steps>>
       ELSE /\ positions_r2_pf' =
                  [k \in 1..Len(indices_pf) |-> At(positions_r2, indices_pf[k])]
            /\ IF \E k \in 1..Len(indices_pf) : ~InRange(umi_list, indices_pf[k])
               THEN /\ Exit("IndexError")
                    /\ UNCHANGED <<umi_list_pf, steps>>
               ELSE /\ umi_list_pf' = SelectUmis(umi_list, indices_pf)
                    /\ steps' = Append(steps, "slice")
                    /\ IF Len(positions_r1) # Len(indices_pf)
                       THEN Exit("r1_r2_mismatch")
                       ELSE /\ pc' = "combine"
                            /\ UNCHANGED error
    /\ UNCHANGED <<sam_r1_path, inputs, sample_name, positions_r2, umi_list,
                   indices_pf, site_table, positions_r1, combined_umi,
                   unique_positions, counts, counts_umi, position_counts>>
    /\ UNCHANGED <<filterVars, resolveVars>>

\* ------------------------------------------------------------------------
\* Inputs of main
\* ------------------------------------------------------------------------
MaxR1 == 2
MaxR2 == 3
MaxUmiLines == 3
MaxIndices == 2

\* s_R1.sam, d/s_R1.sam, d/s_R1_x.sam, s.sam, /s_R1_.sam
SamR1Paths ==
    {<<"s", "_", "R", "1", ".", "s", "a", "m">>,
     <<"d", "/", "s", "_", "R", "1", ".", "s", "a", "m">>,
     <<"d", "/", "s", "_", "R", "1", "_", "x", ".", "s", "a", "m">>,
     <<"s", ".", "s", "a", "m">>,
     <<"/", "s", "_", "R", "1", "_", ".", "s", "a", "m">>}

\* first-read records: an unmapped read and a forward read at 3
R1Records == {[pos |-> <<>>, xs |-> FALSE, is_reverse |-> FALSE],
              [pos |-> <<3, 4>>, xs |-> FALSE, is_reverse |-> FALSE]}

\* the i-th record of the second-read file resolves to 10+i, the i-th line
\* of the UMI file is a UMI of its own
R2Record(i) == [pos |-> <<10 + i>>, xs |-> FALSE, is_reverse |-> FALSE]
UmiLine(i) == [k \in 1..i |-> IF k = i THEN "C" ELSE "A"]

MainInputs ==
    [missing : {"none", "sam_r1", "sam_r2", "umi_list", "indices_pf"},
     sam_r1 : SeqsUpTo(R1Records, MaxR1),
     sam_r2 : {[i \in 1..n |-> R2Record(i)] : n \in 0..MaxR2},
     umi_list : {[i \in 1..n |-> UmiLine(i)] : n \in 0..MaxUmiLines},
     indices_pf : SeqsUpTo(0..(MaxR2 - 1), MaxIndices)]

MainInit(start, name) ==
    /\ FilterIdle
    /\ ResolveIdle
    /\ inputs \in MainInputs
    /\ sample_name = name
    /\ positions_r2 = <<>>
    /\ umi_list = <<>>
    /\ indices_pf = <<>>
    /\ site_table = None
    /\ steps = <<>>
    /\ positions_r1 = <<>>
    /\ positions_r2_pf = <<>>
    /\ umi_list_pf = <<>>
    /\ combined_umi = <<>>
    /\ unique_positions = <<>>
    /\ counts = <<>>
    /\ counts_umi = <<>>
    /\ position_counts = <<>>
    /\ pc = start
    /\ error = ""

\* main as it is started
InitMain ==
    /\ sam_r1_path \in SamR1Paths
    /\ MainInit("extract_sample_name", <<>>)

\* main at line 236, the sample name bound
InitMainBody ==
    /\ sam_r1_path = <<"s", "_", "R", "1", ".", "s", "a", "m">>
    /\ MainInit("get_positions_r1", <<"s">>)

NextMainBody ==
    \/ GetPositionsR1
    \/ GetPositionsR2
    \/ LoadUmiList
    \/ LoadIndicesPf
    \/ SliceByIndices
    \/ CombineUmi
    \/ DiscardPcrDuplicates
    \/ CountReadsPerTaSite
    \/ SavePositionCounts

\* main from its first statement.  ExtractSampleName leaves no state in
\* which a step of NextMainBody is enabled (see C9), so the steps of the
\* body are studied on their own in SpecMainBody, which starts main at line
\* 236 as if line 233 had returned a name.
SpecMain == InitMain /\ [][ExtractSampleName]_vars

SpecMainBody == InitMainBody /\ [][NextMainBody]_vars

\* ------------------------------------------------------------------------
\* Properties of main
\* ------------------------------------------------------------------------
Suffix(s, n) == SubSeq(s, Len(s) - n + 1, Len(s))

\* the documented convention {sample}_R1.sam (line 208)
Conforming(filename) ==
    /\ Len(filename) > 7
    /\ Suffix(filename, 7) = <<"_", "R", "1", ".", "s", "a", "m">>

SampleOf(filename) == SubSeq(filename, 1, Len(filename) - 7)

\* C9: for a read-1 path whose filename is {sample}_R1.sam the sample name is
\* returned and the run goes on; the run ends in the naming error only for a
\* filename the sample name cannot be derived from.
C9_ConformingNameExtracted ==
    (pc # "extract_sample_name" /\ Conforming(Basename(sam_r1_path))) =>
        /\ error = ""
        /\ sample_name = SampleOf(Basename(sam_r1_path))

MissingInputErrors == {"sam_file", "umi_file_missing", "indices_file_missing"}

LengthsAgree ==
    /\ Len(inputs.umi_list) = Len(inputs.indices_pf)
    /\ Len(inputs.indices_pf) = Len(inputs.sam_r1)

StepsBefore(name) ==
    IF name = "sam_r1" THEN <<>>
    ELSE IF name = "sam_r2" THEN <<"get_positions_r1">>
    ELSE IF name = "umi_list" THEN <<"get_positions_r1", "get_positions_r2">>
    ELSE <<"get_positions_r1", "get_positions_r2", "load_umi_list">>

IsPrefix(s, w) == Len(s) <= Len(w) /\ s = SubSeq(w, 1, Len(s))

FromFirstStage ==
    /\ inputs.missing = "none"
    /\ LengthsAgree
    /\ \A k \in 1..Len(inputs.indices_pf) : inputs.indices_pf[k] < Len(inputs.sam_r2)
    /\ \A k \in 1..Len(inputs.indices_pf) - 1 :
          inputs.indices_pf[k] < inputs.indices_pf[k + 1]

====
